---- MODULE Spec2Model ----
(***************************************************************************)
(* Model of the useMovies / useFilteredMovies composables (Vue 2.7).       *)
(*                                                                         *)
(* useMovies owns `loading` and `movies`, starts a load on mount and on    *)
(* every change of the store's activeCountry that its watcher observes.    *)
(* useFilteredMovies owns `filteredMovies` and recomputes it from watchers *)
(* on the store's filters and on `movies`.                                 *)
(*                                                                         *)
(* Arrays are modelled with their identity: a value is a record            *)
(*   [ref |-> heap identity, defined |-> is it an array, items |-> content]*)
(* so that Vue's change detection (reference comparison) and aliasing are  *)
(* part of the model.  Watcher callbacks run asynchronously in the         *)
(* scheduler flush (nextTick); `pending` says a flush is queued.           *)
(***************************************************************************)
EXTENDS Integers, Sequences, FiniteSets, TLC

VARIABLES
  mounted,        \* has onMounted run
  activeCountry,  \* store.state.activeCountry
  filters,        \* store.state.filters (array value)
  loading,        \* useMovies: loading.value
  movies,         \* useMovies: movies.value (array value or undefined)
  filteredMovies, \* useFilteredMovies: filteredMovies.value
  inflight,       \* loads suspended at `await fetchMovies(...)`, by call number
  pending,        \* a scheduler flush is queued (some watcher was notified)
  seenCountry,    \* watch(activeCountry): the value it observed last
  seenFilters,    \* watch(categoryFilters): the array it observed last (ref)
  seenMovies,     \* watch(movies): the value it observed last (ref)
  nextRef,        \* next unused array identity
  calls,          \* history: arguments of the calls of fetchMovies, in order
  observed,       \* history: country values observed at mount and on changes
  lastResolved,   \* history: call number of the fetch that resolved last, 0 if none
  resolved,       \* history: number of fetches that resolved
  rejected,       \* history: number of fetches that rejected
  recomputes,     \* history: number of invocations of filterMovies
  failures,       \* history: number of invocations of filterMovies that threw
  ops             \* number of store writes so far

vars == <<mounted, activeCountry, filters, loading, movies, filteredMovies,
          inflight, pending, seenCountry, seenFilters, seenMovies, nextRef,
          calls, observed, lastResolved, resolved, rejected, recomputes,
          failures, ops>>

(* Bounds *)
MaxOps == 3
MaxLen == 3

(***************************************************************************)
(* Data                                                                    *)
(***************************************************************************)
MOVIES_BY_COUNTRY ==
  [US    |-> << [id |-> 1, name |-> "Office Space", category |-> "Real Life"],
                [id |-> 2, name |-> "Brain Candy", category |-> "Comedy"],
                [id |-> 4, name |-> "Drive", category |-> "Drama"] >>,
   JAPAN |-> << [id |-> 3, name |-> "Spirited Away", category |-> "Anime"] >>]

\* The country values written to the store: the two radio buttons of
\* MovieFilter.vue and the value the tests write, which is not a table key.
Countries == {"US", "JAPAN", "Japan"}

\* The checkboxes of MovieFilter.vue.
Categories == {"Drama", "Dramedy", "Comedy", "Real Life", "Anime"}

\* Array identities: the two arrays of the table are allocated once, at
\* module load, so every fetch of a country yields the same array.
TableRef(country) == IF country = "US" THEN 1 ELSE 2
InitialMoviesRef == 3
InitialFilteredRef == 4
InitialFiltersRef == 5
FirstFreeRef == 6

Array(r, s) == [ref |-> r, defined |-> TRUE, items |-> s]
Undefined == [ref |-> 0, defined |-> FALSE, items |-> <<>>]

(***************************************************************************)
(* fetchMovies: the promise resolves with MOVIES_BY_COUNTRY[country],      *)
(* which is undefined for a key that is not in the table.                  *)
(***************************************************************************)
fetchMoviesEmptyForUnknown(country) ==
  IF country \in DOMAIN MOVIES_BY_COUNTRY
    THEN Array(TableRef(country), MOVIES_BY_COUNTRY[country])
    ELSE Array(InitialMoviesRef, <<>>)

fetchMovies(country) ==
  IF country \in DOMAIN MOVIES_BY_COUNTRY
    THEN Array(TableRef(country), MOVIES_BY_COUNTRY[country])
    ELSE Undefined

(***************************************************************************)
(* filterMovies, the pure part.                                            *)
(*   movies.value.filter((movie) => {                                      *)
(*     if (!categoryFilters.value.length) return true;                     *)
(*     return categoryFilters.value.find((c) => c === movie.category); })  *)
(* Array.prototype.find returns the element found, or undefined; filter    *)
(* keeps the movie when the value returned is truthy.                      *)
(***************************************************************************)
NotFound == [found |-> FALSE, value |-> ""]

RECURSIVE find(_, _)
find(categories, category) ==
  IF categories = <<>> THEN NotFound
  ELSE IF Head(categories) = category
         THEN [found |-> TRUE, value |-> Head(categories)]
         ELSE find(Tail(categories), category)

\* JavaScript truthiness of what find returned: undefined and "" are falsy.
Truthy(r) == r.found /\ r.value # ""

includes(categories, category) ==
  \E i \in 1..Len(categories) : categories[i] = category

KeepMovieFirstCategoryOnly(categories, movie) ==
  IF Len(categories) = 0 THEN TRUE
  ELSE Head(categories) = movie.category

KeepMovie(categories, movie) ==
  IF Len(categories) = 0 THEN TRUE
  ELSE Truthy(find(categories, movie.category))

RECURSIVE ArrayFilter(_, _)
ArrayFilter(list, categories) ==
  IF list = <<>> THEN <<>>
  ELSE (IF KeepMovie(categories, Head(list)) THEN <<Head(list)>> ELSE <<>>)
       \o ArrayFilter(Tail(list), categories)

(***************************************************************************)
(* filterMovies as a callback: reads movies and the filters, and replaces  *)
(* filteredMovies by the new array that Array.prototype.filter builds.     *)
(* When movies.value is undefined, `movies.value.filter` throws a          *)
(* TypeError; Vue's error handling catches it and filteredMovies is left   *)
(* as it was.  s is the part of the state the callback writes.             *)
(***************************************************************************)
filterMovies(s, m, f) ==
  IF m.defined
    THEN [filteredMovies |-> Array(s.nextRef, ArrayFilter(m.items, f.items)),
          nextRef        |-> s.nextRef + 1,
          recomputes     |-> s.recomputes + 1,
          failures       |-> s.failures]
    ELSE [s EXCEPT !.recomputes = @ + 1, !.failures = @ + 1]

FilterState ==
  [filteredMovies |-> filteredMovies, nextRef |-> nextRef,
   recomputes |-> recomputes, failures |-> failures]

\* Vue 2.7 watch(): the callback runs when the source's value has changed
\* (hasChanged, a comparison by identity) since the watcher last ran.
hasChangedAlways(new, old) == TRUE

hasChanged(new, old) == new # old

(***************************************************************************)
(* Initial state: setup() has run, onMounted has not.  The store comes     *)
(* from useStore(); the application and the tests each build their own,    *)
(* so its country is any of the values.                                    *)
(***************************************************************************)
Init ==
  /\ mounted = FALSE
  /\ activeCountry \in Countries
  /\ filters = Array(InitialFiltersRef, <<>>)
  /\ loading = FALSE
  /\ movies = Array(InitialMoviesRef, <<>>)
  /\ filteredMovies = Array(InitialFilteredRef, <<>>)
  /\ inflight = {}
  /\ pending = FALSE
  /\ seenCountry = activeCountry
  /\ seenFilters = InitialFiltersRef
  /\ seenMovies = InitialMoviesRef
  /\ nextRef = FirstFreeRef
  /\ calls = <<>>
  /\ observed = <<>>
  /\ lastResolved = 0
  /\ resolved = 0
  /\ rejected = 0
  /\ recomputes = 0
  /\ failures = 0
  /\ ops = 0

(***************************************************************************)
(* loadMovies up to its await: loading.value = true, then fetchMovies is   *)
(* called with activeCountry.value and the function suspends.              *)
(***************************************************************************)
loadMoviesStartNoFlag ==
  /\ loading' = loading
  /\ calls' = Append(calls, activeCountry)
  /\ inflight' = inflight \cup {Len(calls) + 1}

loadMoviesStartCancelling ==
  /\ loading' = TRUE
  /\ calls' = Append(calls, activeCountry)
  /\ inflight' = {Len(calls) + 1}

loadMoviesStart ==
  /\ loading' = TRUE
  /\ calls' = Append(calls, activeCountry)
  /\ inflight' = inflight \cup {Len(calls) + 1}

\* onMounted(() => { loadMovies(); })
Mount ==
  /\ ~mounted
  /\ mounted' = TRUE
  /\ loadMoviesStart
  /\ observed' = Append(observed, activeCountry)
  /\ UNCHANGED <<activeCountry, filters, movies, filteredMovies, pending,
                 seenCountry, seenFilters, seenMovies, nextRef, lastResolved,
                 resolved, rejected, recomputes, failures, ops>>

(***************************************************************************)
(* Store writes (MovieFilter.vue).  Vue's reactive setter notifies the     *)
(* watchers, which queues a flush, only when the value written differs     *)
(* from the current one.                                                   *)
(***************************************************************************)
\* activeCountry setter: store.set("activeCountry", c)
SetCountry(c) ==
  /\ mounted
  /\ ops < MaxOps
  /\ activeCountry' = c
  /\ pending' = (pending \/ c # activeCountry)
  /\ ops' = ops + 1
  /\ UNCHANGED <<mounted, filters, loading, movies, filteredMovies, inflight,
                 seenCountry, seenFilters, seenMovies, nextRef, calls,
                 observed, lastResolved, resolved, rejected, recomputes,
                 failures>>

Remove(s, x) == SelectSeq(s, LAMBDA y : y # x)

\* categoryFilters setter through v-model on a checkbox: a new array, the
\* old one with the category appended or removed.
ToggleFilter(c) ==
  /\ mounted
  /\ ops < MaxOps
  /\ filters' = Array(nextRef, IF includes(filters.items, c)
                                 THEN Remove(filters.items, c)
                                 ELSE Append(filters.items, c))
  /\ nextRef' = nextRef + 1
  /\ pending' = TRUE
  /\ ops' = ops + 1
  /\ UNCHANGED <<mounted, activeCountry, loading, movies, filteredMovies,
                 inflight, seenCountry, seenFilters, seenMovies, calls,
                 observed, lastResolved, resolved, rejected, recomputes,
                 failures>>

\* checkAll: store.set("filters", [])
checkAll ==
  /\ mounted
  /\ ops < MaxOps
  /\ filters' = Array(nextRef, <<>>)
  /\ nextRef' = nextRef + 1
  /\ pending' = TRUE
  /\ ops' = ops + 1
  /\ UNCHANGED <<mounted, activeCountry, loading, movies, filteredMovies,
                 inflight, seenCountry, seenFilters, seenMovies, calls,
                 observed, lastResolved, resolved, rejected, recomputes,
                 failures>>

(***************************************************************************)
(* The scheduler flush: the queued watchers run in the order they were     *)
(* created: watch(activeCountry, loadMovies), watch(categoryFilters,       *)
(* filterMovies), watch(movies, filterMovies).                             *)
(***************************************************************************)
Flush ==
  /\ pending
  /\ pending' = FALSE
  /\ IF hasChanged(activeCountry, seenCountry)
       THEN loadMoviesStart
       ELSE UNCHANGED <<loading, calls, inflight>>
  /\ observed' = IF activeCountry # observed[Len(observed)]
                   THEN Append(observed, activeCountry)
                   ELSE observed
  /\ seenCountry' = activeCountry
  /\ LET s0 == FilterState
         s1 == IF hasChanged(filters.ref, seenFilters)
                 THEN filterMovies(s0, movies, filters) ELSE s0
         s2 == IF hasChanged(movies.ref, seenMovies)
                 THEN filterMovies(s1, movies, filters) ELSE s1
     IN /\ filteredMovies' = s2.filteredMovies
        /\ nextRef' = s2.nextRef
        /\ recomputes' = s2.recomputes
        /\ failures' = s2.failures
  /\ seenFilters' = filters.ref
  /\ seenMovies' = movies.ref
  /\ UNCHANGED <<mounted, activeCountry, filters, movies, lastResolved,
                 resolved, rejected, ops>>

(***************************************************************************)
(* loadMovies after its await.  The fetch of call number n resolves:       *)
(*   movies.value = moviesResult; loading.value = false;                   *)
(* The ref's setter queues the flush when the value assigned differs from  *)
(* the current one.                                                        *)
(***************************************************************************)
ResolveFetchKeepLoading(n) ==
  /\ n \in inflight
  /\ inflight' = inflight \ {n}
  /\ movies' = fetchMovies(calls[n])
  /\ loading' = loading
  /\ pending' = (pending \/ movies'.ref # movies.ref)
  /\ lastResolved' = n
  /\ resolved' = resolved + 1
  /\ UNCHANGED <<mounted, activeCountry, filters, filteredMovies, seenCountry,
                 seenFilters, seenMovies, nextRef, calls, observed, rejected,
                 recomputes, failures, ops>>

ResolveFetch(n) ==
  /\ n \in inflight
  /\ inflight' = inflight \ {n}
  /\ movies' = fetchMovies(calls[n])
  /\ loading' = FALSE
  /\ pending' = (pending \/ movies'.ref # movies.ref)
  /\ lastResolved' = n
  /\ resolved' = resolved + 1
  /\ UNCHANGED <<mounted, activeCountry, filters, filteredMovies, seenCountry,
                 seenFilters, seenMovies, nextRef, calls, observed, rejected,
                 recomputes, failures, ops>>

\* The fetch of call number n rejects: the await throws, the rest of
\* loadMovies does not run and the promise loadMovies returned rejects.
RejectFetchResetting(n) ==
  /\ n \in inflight
  /\ inflight' = inflight \ {n}
  /\ rejected' = rejected + 1
  /\ loading' = FALSE
  /\ UNCHANGED <<mounted, activeCountry, filters, movies, filteredMovies,
                 pending, seenCountry, seenFilters, seenMovies, nextRef,
                 calls, observed, lastResolved, resolved, recomputes,
                 failures, ops>>

RejectFetch(n) ==
  /\ n \in inflight
  /\ inflight' = inflight \ {n}
  /\ rejected' = rejected + 1
  /\ UNCHANGED <<mounted, activeCountry, filters, loading, movies,
                 filteredMovies, pending, seenCountry, seenFilters,
                 seenMovies, nextRef, calls, observed, lastResolved, resolved,
                 recomputes, failures, ops>>

CallNumbers == 1..(MaxOps + 1)

\* The composables with the reference fetchMovies, whose promise only ever
\* resolves; fetches complete in any order.
Next ==
  \/ Mount
  \/ \E c \in Countries : SetCountry(c)
  \/ \E c \in Categories : ToggleFilter(c)
  \/ checkAll
  \/ Flush
  \/ \E n \in CallNumbers : ResolveFetch(n)

Spec == Init /\ [][Next]_vars

\* The same, with the scheduling the code relies on: a queued flush runs
\* (nextTick), and the timer of every fetch fires, so every fetch resolves.
SpecLive ==
  /\ Init /\ [][Next]_vars
  /\ WF_vars(Flush)
  /\ \A n \in CallNumbers : WF_vars(ResolveFetch(n))

\* What the composables return.  useMovies: return { loading, movies };
\* useFilteredMovies: return { loading, movies: filteredMovies }, loading
\* being the ref it received from useMovies.
useMoviesResult == [loading |-> loading, movies |-> movies]

useFilteredMoviesOwnLoading ==
  [loading |-> (inflight # {}), movies |-> filteredMovies]

useFilteredMoviesResult == [loading |-> loading, movies |-> filteredMovies]

\* The reference fetchMovies resolves each call from a timer of the same
\* delay (2000 ms): the timers fire in the order the calls were made.
Newest(S) == CHOOSE n \in S : \A m \in S : m <= n

Oldest(S) == CHOOSE n \in S : \A m \in S : n <= m

FetchTimerFires ==
  /\ inflight # {}
  /\ ResolveFetch(Oldest(inflight))

NextFifo ==
  \/ Mount
  \/ \E c \in Countries : SetCountry(c)
  \/ \E c \in Categories : ToggleFilter(c)
  \/ checkAll
  \/ Flush
  \/ FetchTimerFires

SpecFifo == Init /\ [][NextFifo]_vars

\* The composables driven by MovieFilter.vue alone, whose radio buttons
\* offer the keys of the table only.
KnownCountries == DOMAIN MOVIES_BY_COUNTRY

InitKnown == Init /\ activeCountry \in KnownCountries

NextKnown ==
  \/ Mount
  \/ \E c \in KnownCountries : SetCountry(c)
  \/ \E c \in Categories : ToggleFilter(c)
  \/ checkAll
  \/ Flush
  \/ \E n \in CallNumbers : ResolveFetch(n)

SpecKnown == InitKnown /\ [][NextKnown]_vars

\* The composables with a fetch that may also reject.
NextFailing ==
  \/ Mount
  \/ \E c \in Countries : SetCountry(c)
  \/ \E c \in Categories : ToggleFilter(c)
  \/ checkAll
  \/ Flush
  \/ \E n \in CallNumbers : ResolveFetch(n)
  \/ \E n \in CallNumbers : RejectFetch(n)

SpecFailing == Init /\ [][NextFailing]_vars

(***************************************************************************)
(* filterMovies on arbitrary inputs: the state in which the filters were   *)
(* just replaced by the array F while movies holds the list M, and the     *)
(* flush that runs watch(categoryFilters, filterMovies).                   *)
(***************************************************************************)
SeqsUpTo(S, n) == UNION {[1..k -> S] : k \in 0..n}

\* Movie = {id: number, name: string, category: string}
MovieUniverse ==
  { [id |-> 4, name |-> "Drive", category |-> "Drama"],
    [id |-> 2, name |-> "Brain Candy", category |-> "Comedy"],
    [id |-> 5, name |-> "Untitled", category |-> ""] }

\* filters: string[]
CategoryUniverse == {"Drama", "Comedy", ""}

InitFilter ==
  /\ mounted = TRUE
  /\ activeCountry = "US"
  /\ \E F \in SeqsUpTo(CategoryUniverse, MaxLen) :
       filters = Array(FirstFreeRef, F)
  /\ loading = FALSE
  /\ \E M \in SeqsUpTo(MovieUniverse, MaxLen) :
       movies = Array(InitialMoviesRef, M)
  /\ filteredMovies = Array(InitialFilteredRef, <<>>)
  /\ inflight = {}
  /\ pending = TRUE
  /\ seenCountry = activeCountry
  /\ seenFilters = InitialFiltersRef
  /\ seenMovies = InitialMoviesRef
  /\ nextRef = FirstFreeRef + 1
  /\ calls = <<"US">>
  /\ observed = <<"US">>
  /\ lastResolved = 0
  /\ resolved = 0
  /\ rejected = 0
  /\ recomputes = 0
  /\ failures = 0
  /\ ops = 1

NextFilter == Flush

SpecFilter == InitFilter /\ [][NextFilter]_vars

(***************************************************************************)
(* Properties                                                              *)
(***************************************************************************)
Range(s) == {s[i] : i \in 1..Len(s)}

IsKnown(country) == country \in DOMAIN MOVIES_BY_COUNTRY

\* C1: after the mount, while the initial load is the only load started,
\* loading is true exactly as long as its fetch has not resolved: true from
\* the start of the load, false once the fetch has resolved; for every
\* initial country.
C1_LoadingFollowsInitialLoad ==
  (mounted /\ Len(calls) = 1) =>
     /\ (1 \in inflight => loading = TRUE)
     /\ (resolved = 1 => loading = FALSE)

C1_InitialLoadResolved ==
  /\ mounted /\ Len(calls) = 1 /\ resolved = 1 /\ inflight = {}
  /\ loading = FALSE
  /\ activeCountry = "JAPAN"

\* C2: the calls of fetchMovies are exactly one for the mount and one for each
\* change of the country that the watcher observed, each with the country
\* current when its load started: the log of the calls equals the log of the
\* observed values.  Writes that restore the observed value and changes of
\* the filters add no call; US then JAPAN gives the two calls US, JAPAN.
C2_OneCallPerObservedChange ==
  /\ calls = observed
  /\ Len(calls) <= (IF mounted THEN 1 ELSE 0) + ops
  /\ \A i \in 1..(Len(calls) - 1) : calls[i] # calls[i + 1]

C2_RefetchAfterChange ==
  /\ calls = <<"US", "JAPAN">>
  /\ resolved = 2
  /\ ops >= 3
  /\ filters.items # <<>>
  /\ ~pending

\* C3: a recompute yields the movies list itself (its items) when the filter
\* set is empty, and otherwise the movies whose category is in the filter
\* set, in the order of the list.
C3_FilterIsSubsequenceByCategory ==
  recomputes = 1 =>
    filteredMovies.items =
      IF filters.items = <<>> THEN movies.items
      ELSE SelectSeq(movies.items,
                     LAMBDA m : m.category \in Range(filters.items))

\* C4: whenever some load has started its fetch and has not yet assigned its
\* result, loading is true.
C4_LoadingWhileInFlight == inflight # {} => loading = TRUE

\* C5: no load is cancelled or dropped (every load started is in flight or
\* has completed), and movies is the result of the fetch that resolved last,
\* whichever load started last.
C5_LastResolvedWins ==
  /\ Len(calls) = Cardinality(inflight) + resolved + rejected
  /\ inflight \subseteq 1..Len(calls)
  /\ resolved > 0 => movies = fetchMovies(calls[lastResolved])

C5_StaleListAtRest ==
  /\ inflight = {} /\ ~pending /\ loading = FALSE
  /\ Len(calls) >= 2 /\ resolved = Len(calls)
  /\ lastResolved < Len(calls)
  /\ IsKnown(activeCountry)
  /\ movies.defined
  /\ movies # fetchMovies(activeCountry)

\* C6: every change of the filters or of movies queues a recompute, and every
\* recompute replaces filteredMovies by a new list, which is neither the
\* previous filteredMovies nor the movies list.
C6_RecomputeIsFresh ==
  [][ /\ (filters' # filters \/ movies' # movies) => pending'
      /\ recomputes' # recomputes =>
           /\ filteredMovies'.ref # filteredMovies.ref
           /\ filteredMovies'.ref # movies'.ref
           /\ filteredMovies'.defined ]_vars

\* C7: no recompute of filteredMovies fails, whatever the loader assigned to
\* movies.
C7_RecomputeNeverFails == failures = 0

\* C8: when the fetch for a country that is not in the table resolves, the
\* load sets movies to undefined (not an empty list, not the previous list)
\* and loading to false.
C8_UnknownCountryYieldsUndefined ==
  [][ (resolved' # resolved /\ ~IsKnown(calls[lastResolved'])) =>
        /\ movies' = Undefined
        /\ ~movies'.defined
        /\ loading' = FALSE
        /\ rejected' = rejected ]_vars

C8_UndefinedAssigned ==
  /\ resolved > 0 /\ lastResolved # 0
  /\ ~IsKnown(calls[lastResolved])
  /\ movies = Undefined
  /\ loading = FALSE

\* C9: while a fetch stays unresolved, loading does not go from true to
\* false: a fetch that never resolves leaves loading true for ever.
C9_LoadingStaysWhileUnresolved ==
  [][ (loading = TRUE /\ inflight \cap inflight' # {}) => loading' = TRUE ]_vars

\* C10: a step in which a fetch rejects changes neither movies nor loading
\* (nor filteredMovies, nor queues a recompute): a load whose fetch rejected
\* leaves loading as it was, and loading is true after the rejection when no
\* load has resolved, also with no load left in flight.
C10_RejectionLeavesState ==
  [][ rejected' # rejected =>
        /\ movies' = movies
        /\ loading' = loading
        /\ filteredMovies' = filteredMovies
        /\ pending' = pending
        /\ resolved' = resolved
        /\ (resolved = 0 => loading' = TRUE) ]_vars

C10_StuckAfterRejection ==
  /\ rejected = 1 /\ resolved = 0 /\ Len(calls) = 1
  /\ inflight = {}
  /\ loading = TRUE
  /\ movies = Array(InitialMoviesRef, <<>>)

\* The lifecycle of the loader, read off its state: Loading while loading is
\* set, Idle while it is not and movies is still the initial list, Loaded
\* once a load has assigned movies.
LifecycleState ==
  IF loading THEN "Loading"
  ELSE IF movies.ref = InitialMoviesRef THEN "Idle"
  ELSE "Loaded"

\* C11: the lifecycle changes only from Idle to Loading (a load starts),
\* from Loading to Loaded (a fetch resolves) and from Loaded to Loading (a
\* load starts for a changed country); Idle is never entered again; and, every
\* fetch resolving, each Loading is eventually followed by Loaded.
C11_LifecycleTransitions ==
  /\ [][ LifecycleState' # LifecycleState =>
           \/ /\ LifecycleState = "Idle" /\ LifecycleState' = "Loading"
              /\ Len(calls') = Len(calls) + 1
           \/ /\ LifecycleState = "Loading" /\ LifecycleState' = "Loaded"
              /\ resolved' = resolved + 1
           \/ /\ LifecycleState = "Loaded" /\ LifecycleState' = "Loading"
              /\ Len(calls') = Len(calls) + 1
              /\ activeCountry # seenCountry ]_vars
  /\ [](LifecycleState = "Idle" => calls = <<>>)
  /\ (LifecycleState = "Loading") ~> (LifecycleState = "Loaded")

C11_LoadedAgainAfterChange ==
  /\ LifecycleState = "Loaded"
  /\ Len(calls) = 2 /\ resolved = 2 /\ lastResolved = 2
  /\ inflight = {}
  /\ movies = fetchMovies(activeCountry)

\* C12: loading and movies are written by the loader's load only: a step
\* that changes loading, movies or the fetches is the start of a load or the
\* resolution of a fetch; a change of the filters, and a flush in which no
\* country change is observed, leave loading, movies and the fetches as they
\* are; no recompute changes movies; and the loading that useFilteredMovies
\* exposes is the loader's loading in every state.
C12_LoadStateOwnedByLoader ==
  /\ [][ /\ (loading' # loading \/ movies' # movies \/ calls' # calls
               \/ inflight' # inflight) =>
              \/ /\ Len(calls') = Len(calls) + 1
                 /\ loading' = TRUE /\ movies' = movies
                 /\ filters' = filters
                 /\ observed' # observed
              \/ /\ resolved' = resolved + 1
                 /\ calls' = calls
                 /\ recomputes' = recomputes /\ filters' = filters
         /\ filters' # filters =>
              UNCHANGED <<loading, movies, calls, inflight>>
         /\ (recomputes' # recomputes /\ observed' = observed) =>
              UNCHANGED <<loading, movies, calls, inflight>>
         /\ recomputes' # recomputes => movies' = movies ]_vars
  /\ [](useFilteredMoviesResult.loading = useMoviesResult.loading)

C12_RecomputeDuringLoad ==
  /\ Len(calls) = 1 /\ inflight = {1} /\ resolved = 0
  /\ loading = TRUE
  /\ useFilteredMoviesResult.loading = TRUE
  /\ filters.items # <<>>
  /\ recomputes > 0 /\ ~pending
  /\ movies = Array(InitialMoviesRef, <<>>)

\* C13: when the fetches resolve in the order they were started, no result
\* is overwritten by the result of an earlier call (every fetch in flight
\* was started after the one that resolved last), and once all loads have
\* resolved movies is the table entry of the country observed last.
C13_FifoKeepsFreshest ==
  /\ \A n \in inflight : n > lastResolved
  /\ (mounted /\ inflight = {}) =>
        /\ lastResolved = Len(calls)
        /\ movies = fetchMovies(observed[Len(observed)])
        /\ (~pending => movies = fetchMovies(activeCountry))

C13_OverlappingLoadsSettled ==
  /\ Len(calls) = 3 /\ resolved = 3 /\ inflight = {} /\ ~pending
  /\ calls[1] = "US" /\ calls[2] = "JAPAN" /\ calls[3] = "US"
  /\ movies = fetchMovies("US")
  /\ loading = FALSE

\* C14: with country values that are keys of the table, in every state with
\* no fetch in flight and no flush queued filteredMovies is the movies list
\* filtered by the filters (the list itself when the filters are empty, its
\* movies with a category among the filters otherwise); and until a fetch
\* has resolved, movies and filteredMovies are empty lists.
C14_FilteredMatchesAtRest ==
  /\ (inflight = {} /\ ~pending) =>
        /\ movies.defined /\ filteredMovies.defined
        /\ filteredMovies.items =
             IF filters.items = <<>> THEN movies.items
             ELSE SelectSeq(movies.items,
                            LAMBDA m : m.category \in Range(filters.items))
  /\ resolved = 0 =>
        /\ movies = Array(InitialMoviesRef, <<>>)
        /\ filteredMovies.defined /\ filteredMovies.items = <<>>

C14_FilteredSubsetAtRest ==
  /\ inflight = {} /\ ~pending /\ resolved >= 2
  /\ Len(filters.items) = 2
  /\ movies = fetchMovies("US")
  /\ Len(filteredMovies.items) = 1
  /\ filteredMovies.items[1].category = filters.items[2]

====
